---- MODULE Spec2Model ----
(***************************************************************************)
(* Model of mp4frag (src/mp4frag.py): the streaming fragmented-MP4 parser  *)
(* thread, its segment publication (_setSegment), its accessors, and the   *)
(* worker loop (run / _transform / stop).                                  *)
(*                                                                         *)
(* Bytes are sequences of naturals 0..255.  An attribute that the Python   *)
(* object may or may not have (hasattr) is a sequence of length <= 1:      *)
(* None for "no such attribute", Some(v) for "attribute with value v".     *)
(* Times are integers in milliseconds; _duration (a float number of        *)
(* seconds in the source) is kept in milliseconds.                         *)
(***************************************************************************)
EXTENDS Integers, Sequences, FiniteSets, TLC

VARIABLES
    opts,           \* the options dict handed to __init__ (None or a record)
    parts,          \* what the encoder will write to _rpipe: boxes and noise, in order
    pos,            \* how many bytes of the stream have been read so far
    run,            \* self._run
    wpc,            \* position of the worker thread
    cur,            \* chunk the worker is about to hand to self._parseChunk
    segArg,         \* argument of the _setSegment call in progress
    cont,           \* what _findMdat does after _setSegment returns
    parser,         \* parser attributes (_parseChunk, saved boxes, accumulators)
    initialization, \* self._initialization
    mime,           \* self._mime
    timestamp,      \* self._timestamp
    duration,       \* self._duration (ms)
    segment,        \* self._segment
    sequence,       \* self._sequence
    hlsList,        \* self._hlsList
    m3u8,           \* self._m3u8
    bufferList,     \* self._bufferList
    pipe,           \* messages sent on self._pipe and not yet received
    now,            \* wall clock, ms
    handed,         \* history: every chunk handed to _setSegment, in order
    pubSeqs         \* history: every value _setSegment assigned to _sequence

vars == <<opts, parts, pos, run, wpc, cur, segArg, cont, parser,
          initialization, mime, timestamp, duration, segment, sequence,
          hlsList, m3u8, bufferList, pipe, now, handed, pubSeqs>>

----------------------------------------------------------------------------
(* Bounds of the model *)

\* messages the OS buffer of the duplex Pipe holds before send_bytes blocks
PipeCap == 2

\* possible advances of the wall clock between two readings of time.time()
Deltas == {400, 2000}

----------------------------------------------------------------------------
(* Optional values and bytes *)

None == <<>>
Some(x) == <<x>>
Has(o) == o # <<>>
Get(o) == o[1]

Min(a, b) == IF a < b THEN a ELSE b
Max(a, b) == IF a > b THEN a ELSE b

_FTYP == <<102, 116, 121, 112>>
_MOOV == <<109, 111, 111, 118>>
_MOOF == <<109, 111, 111, 102>>
_MFRA == <<109, 102, 114, 97>>
_MDAT == <<109, 100, 97, 116>>
_MP4A == <<109, 112, 52, 97>>
_AVCC == <<97, 118, 99, 67>>

\* int.from_bytes(data, byteorder='big', signed=False)
RECURSIVE _int(_)
_int(data) ==
    IF data = <<>> THEN 0
    ELSE _int(SubSeq(data, 1, Len(data) - 1)) * 256 + data[Len(data)]

\* Python slice b[lo:hi] for 0 <= lo
Slice(b, lo, hi) == SubSeq(b, lo + 1, Min(hi, Len(b)))
\* Python slice b[lo:]
SliceFrom(b, lo) == SubSeq(b, lo + 1, Len(b))

\* bytes.find(sub): lowest 0-based index of sub in b, or -1
Find(b, sub) ==
    LET hits == {i \in 0..(Len(b) - Len(sub)) : SubSeq(b, i + 1, i + Len(sub)) = sub}
    IN  IF hits = {} THEN -1 ELSE CHOOSE i \in hits : \A j \in hits : i <= j

RECURSIVE Concat(_)
Concat(li) == IF li = <<>> THEN <<>> ELSE li[1] \o Concat(Tail(li))

\* _bsconcate(li, leng)
_bsconcate(li, leng) ==
    LET res == Concat(li)
    IN  IF leng <= 0 \/ leng > Len(res) THEN res ELSE Slice(res, 0, leng)

\* the 4 bytes that encode n as a big-endian unsigned 32-bit integer
BE32(n) == <<(n \div 16777216) % 256, (n \div 65536) % 256, (n \div 256) % 256, n % 256>>

\* a box as the encoder writes it: header-inclusive length, tag, payload
Box(tag, payload) == BE32(8 + Len(payload)) \o tag \o payload

----------------------------------------------------------------------------
(* Construction: mp4frag.__init__ *)

\* the clamp written at lines 36-41 (HLS list) and 53-58 (buffer list)
Clamp(n) == IF n < 2 THEN 2 ELSE IF n > 10 THEN 10 ELSE n

\* self._sequence as __init__ sets it
InitSequence == -1

\* The attributes __init__ leaves on the object.  options is None or
\* Some(dict); a key of the dict that is not given is None.  raised is TRUE
\* when __init__ ends in a KeyError (line 52 reads options['hlsListSize']).
Construct(options) ==
    LET o       == Get(options)
        given   == Has(options)
        hls     == given /\ Has(o.hlsBase)
        buf     == given /\ Has(o.bufferListSize)
    IN  [ raised         |-> buf /\ ~Has(o.hlsListSize),
          hasHlsList     |-> hls,
          hlsBase        |-> IF hls THEN o.hlsBase ELSE None,
          hlsListSize    |-> IF hls
                             THEN IF Has(o.hlsListSize) THEN Clamp(Get(o.hlsListSize)) ELSE 4
                             ELSE 0,
          hlsListInit    |-> IF hls
                             THEN IF Has(o.hlsListInit) THEN Some(Get(o.hlsListInit) = TRUE)
                                  ELSE Some(FALSE)
                             ELSE None,
          hasBufferList  |-> buf,
          bufferListSize |-> IF buf /\ Has(o.hlsListSize) THEN Clamp(Get(o.hlsListSize)) ELSE 0 ]

\* the object's configuration attributes, fixed after construction
Cfg == Construct(opts)

----------------------------------------------------------------------------
(* The parser: one call of the current self._parseChunk handler.           *)
(* A handler's result: the parser attributes after it, the chunk it        *)
(* forwards to the next handler (fwd), the bytes it hands to _parseMoov    *)
(* (init) and the bytes it hands to _setSegment (seg).  The handler calls  *)
(* _parseMoov / _setSegment before it deletes attributes and switches      *)
(* state, so p is the state once that call has returned.                   *)

InitParser ==
    [ state          |-> "findFtyp",
      ftyp           |-> None,
      ftypLength     |-> None,
      moof           |-> None,
      moofLength     |-> None,
      moofBuffer     |-> None,
      moofBufferSize |-> None,
      mdatLength     |-> None,
      mdatBuffer     |-> None,
      mdatBufferSize |-> None,
      moofHunts      |-> None,
      moofHuntsLimit |-> None ]

Result(p, fwd, init, seg) == [p |-> p, fwd |-> fwd, init |-> init, seg |-> seg]

\* a return that also forgets the saved moof box
StayForget(p) == Result([p EXCEPT !.moof = None], None, None, None)

\* a handler's return with nothing forwarded, parsed or published
Stay(p) == Result(p, None, None, None)

_findFtyp(p, chunk) ==
    LET chunkLength == Len(chunk)
        ftypLength  == _int(Slice(chunk, 0, 4))
        q           == [p EXCEPT !.ftypLength = Some(ftypLength)]
    IN  IF chunkLength < 8 \/ Find(chunk, _FTYP) # 4 THEN Stay(p)
        ELSE IF ftypLength < chunkLength
        THEN Result([q EXCEPT !.ftyp = Some(Slice(chunk, 0, ftypLength)),
                              !.state = "findMoov"],
                    Some(SliceFrom(chunk, ftypLength)), None, None)
        ELSE IF ftypLength = chunkLength
        THEN Stay([q EXCEPT !.ftyp = Some(chunk), !.state = "findMoov"])
        ELSE Stay(q)

\* what _findMoov hands to _parseMoov (lines 239 and 245)
MoovInit(ftyp, chunk, moovLength) == ftyp \o chunk

_findMoov(p, chunk) ==
    LET chunkLength == Len(chunk)
        moovLength  == _int(Slice(chunk, 0, 4))
        done        == [p EXCEPT !.ftyp = None, !.ftypLength = None, !.state = "findMoof"]
    IN  IF chunkLength < 8 \/ Find(chunk, _MOOV) # 4 THEN Stay(p)
        ELSE IF moovLength < chunkLength
        THEN Result(done, Some(SliceFrom(chunk, moovLength)),
                    Some(MoovInit(Get(p.ftyp), chunk, moovLength)), None)
        ELSE IF moovLength = chunkLength
        THEN Result(done, None, Some(MoovInit(Get(p.ftyp), chunk, moovLength)), None)
        ELSE Stay(p)

\* an end-marker test that never recognises the mfra box
IsEndMarkerNever(chunk) == FALSE

\* lines 281-283: the rejected chunk holds the mfra tag
IsEndMarker(chunk) == Find(chunk, _MFRA) # -1

_findMoof(p, chunk) ==
    LET chunkLength == Len(chunk) IN
    IF Has(p.moofBuffer)
    THEN LET buf        == Append(Get(p.moofBuffer), chunk)
             size       == Get(p.moofBufferSize) + chunkLength
             moofLength == Get(p.moofLength)
             sliceIndex == chunkLength - (size - moofLength)
             done       == [p EXCEPT !.moof = Some(_bsconcate(buf, moofLength)),
                                     !.moofBuffer = None,
                                     !.moofBufferSize = None,
                                     !.state = "findMdat"]
         IN  IF moofLength = size THEN Stay(done)
             ELSE IF moofLength < size
             THEN Result(done, Some(SliceFrom(chunk, sliceIndex)), None, None)
             ELSE Stay([p EXCEPT !.moofBuffer = Some(buf), !.moofBufferSize = Some(size)])
    ELSE IF chunkLength < 8 \/ Find(chunk, _MOOF) # 4
         THEN IF IsEndMarker(chunk) THEN Stay(p)
              ELSE Result([p EXCEPT !.moofHunts = Some(0),
                                    !.moofHuntsLimit = Some(40),
                                    !.state = "moofHunt"],
                          Some(chunk), None, None)
         ELSE LET moofLength == _int(Slice(chunk, 0, 4))
                  q          == [p EXCEPT !.moofLength = Some(moofLength)]
              IN  IF moofLength = 0 THEN Stay(q)
                  ELSE IF moofLength < chunkLength
                  THEN Result([q EXCEPT !.moof = Some(Slice(chunk, 0, moofLength)),
                                        !.state = "findMdat"],
                              Some(SliceFrom(chunk, moofLength)), None, None)
                  ELSE IF moofLength = chunkLength
                  THEN Stay([q EXCEPT !.moof = Some(chunk), !.state = "findMdat"])
                  ELSE Stay([q EXCEPT !.moofBuffer = Some(<<chunk>>),
                                      !.moofBufferSize = Some(chunkLength)])

\* _findMdat with no accumulator, a chunk longer than the mdat box (lines 339-344):
\* the segment handed to _setSegment and the chunk forwarded
MdatLongSegment(moof, chunk, moofLength, mdatLength) ==
    _bsconcate(<<moof, chunk>>, moofLength + Len(chunk))
MdatLongForward(chunk, mdatLength) == None

\* _findMdat with no accumulator, a chunk exactly the mdat box (lines 345-352)
MdatExactSegment(moof, chunk, moofLength, mdatLength) ==
    _bsconcate(<<moof, chunk>>, moofLength + mdatLength)
MdatExactForward(chunk, mdatLength) == Some(SliceFrom(chunk, mdatLength))

\* an end of accumulation that keeps the mdat accumulator
MdatDoneKeepsBuffer(p) ==
    [p EXCEPT !.moof = None,
              !.mdatLength = None,
              !.moofLength = None,
              !.state = "findMoof"]

\* lines 314-319 and 323-328: the attributes deleted and the handler bound
\* once the accumulated mdat box is complete
MdatDone(p) ==
    [p EXCEPT !.moof = None,
              !.mdatBuffer = None,
              !.mdatBufferSize = None,
              !.mdatLength = None,
              !.moofLength = None,
              !.state = "findMoof"]

_findMdat(p, chunk) ==
    LET chunkLength == Len(chunk) IN
    IF Has(p.mdatBuffer)
    THEN LET buf        == Append(Get(p.mdatBuffer), chunk)
             size       == Get(p.mdatBufferSize) + chunkLength
             mdatLength == Get(p.mdatLength)
             moofLength == Get(p.moofLength)
             sliceIndex == chunkLength - (size - mdatLength)
             seg        == _bsconcate(<<Get(p.moof)>> \o buf, moofLength + mdatLength)
             done       == MdatDone(p)
         IN  IF mdatLength = size THEN Result(done, None, None, Some(seg))
             ELSE IF mdatLength < size
             THEN Result(done, Some(SliceFrom(chunk, sliceIndex)), None, Some(seg))
             ELSE Stay([p EXCEPT !.mdatBuffer = Some(buf), !.mdatBufferSize = Some(size)])
    ELSE IF chunkLength < 8 \/ Find(chunk, _MDAT) # 4 THEN Stay(p)
         ELSE LET mdatLength == _int(Slice(chunk, 0, 4))
                  moofLength == Get(p.moofLength)
                  q          == [p EXCEPT !.mdatLength = Some(mdatLength)]
                  done       == [p EXCEPT !.moof = None,
                                          !.moofLength = None,
                                          !.mdatLength = None,
                                          !.state = "findMoof"]
              IN  IF mdatLength > chunkLength
                  THEN Stay([q EXCEPT !.mdatBuffer = Some(<<chunk>>),
                                      !.mdatBufferSize = Some(chunkLength)])
                  ELSE IF mdatLength < chunkLength
                  THEN Result(done, MdatLongForward(chunk, mdatLength), None,
                              Some(MdatLongSegment(Get(p.moof), chunk, moofLength, mdatLength)))
                  ELSE Result(done, MdatExactForward(chunk, mdatLength), None,
                              Some(MdatExactSegment(Get(p.moof), chunk, moofLength, mdatLength)))

_moofHunt(p, chunk) ==
    IF Get(p.moofHunts) < Get(p.moofHuntsLimit)
    THEN LET index == Find(chunk, _MOOF)
         IN  IF index > 3 /\ Len(chunk) > index + 3
             THEN Result([p EXCEPT !.moofHunts = None,
                                   !.moofHuntsLimit = None,
                                   !.state = "findMoof"],
                         Some(SliceFrom(chunk, index - 4)), None, None)
             ELSE Stay([p EXCEPT !.moofHunts = Some(Get(p.moofHunts) + 1)])
    ELSE Stay(p)

\* self._parseChunk(chunk): the handler the parser is currently bound to
_parseChunk(p, chunk) ==
    CASE p.state = "findFtyp" -> _findFtyp(p, chunk)
      [] p.state = "findMoov" -> _findMoov(p, chunk)
      [] p.state = "findMoof" -> _findMoof(p, chunk)
      [] p.state = "findMdat" -> _findMdat(p, chunk)
      [] p.state = "moofHunt" -> _moofHunt(p, chunk)

----------------------------------------------------------------------------
(* _parseMoov and _setSegment *)

\* Python's round() of a duration of ms milliseconds to whole seconds
\* (round half to even)
PyRound(ms) ==
    LET q == ms \div 1000
        r == ms % 1000
    IN  IF r < 500 THEN q
        ELSE IF r > 500 THEN q + 1
        ELSE IF q % 2 = 0 THEN q ELSE q + 1

\* '%d' % duration: the float truncated to an integer
PyTrunc(ms) == ms \div 1000

\* the playlist _parseMoov writes (lines 392-398)
InitPlaylist(base) ==
    [target |-> 1, mediaSequence |-> 0, map |-> base, entries |-> <<>>]

\* the playlist _setSegment writes (lines 417-426)
LivePlaylist(dur, list, base) ==
    [target        |-> PyRound(dur),
     mediaSequence |-> list[1].sequence,
     map           |-> base,
     entries       |-> [i \in DOMAIN list |->
                          [extinf |-> PyTrunc(list[i].duration), name |-> list[i].name]]]

\* the mime string of line 386: the three profile bytes and the audio suffix
Mime(init) ==
    LET index == Find(init, _AVCC) + 5
    IN  [avc1 |-> Slice(init, index, index + 3), mp4a |-> Find(init, _MP4A) # -1]

\* _parseMoov(chunk) at time t: the attributes it leaves
_parseMoov(chunk, t) ==
    LET found == Find(chunk, _AVCC) # -1
    IN  [ initialization |-> Some(chunk),
          mime           |-> IF found THEN Some(Mime(chunk)) ELSE mime,
          timestamp      |-> IF found THEN Some(t) ELSE timestamp,
          m3u8           |-> IF found /\ Has(hlsList) /\ Has(Cfg.hlsListInit)
                             THEN Some(InitPlaylist(Get(Cfg.hlsBase)))
                             ELSE m3u8 ]

\* line 407
Duration(currentTime, last) == Max(currentTime - last, 1000)

\* a counter that skips a value at every publication
NextSequenceSkip(s) == s + 2

\* line 410
NextSequence(s) == s + 1

\* the entry appended at lines 411-414
HlsEntry(seq, dur) ==
    [ sequence |-> seq,
      name     |-> <<Get(Cfg.hlsBase), seq>>,
      segment  |-> seq,
      duration |-> dur ]

\* an eviction that drops the newest entries instead of the oldest
EvictNewest(li, size) == IF Len(li) > size THEN SubSeq(li, 1, size) ELSE li

\* while (len(li) > size): li.pop(0)
RECURSIVE Evict(_, _)
Evict(li, size) == IF Len(li) > size THEN Evict(Tail(li), size) ELSE li

----------------------------------------------------------------------------
(* Accessors *)

Absent == [kind |-> "None", val |-> <<>>]
Bytes(b) == [kind |-> "bytes", val |-> b]
BoundMethod == [kind |-> "method", val |-> <<>>]
Raises == [kind |-> "AttributeError", val |-> <<>>]

\* property initialization
Initialization == IF Has(initialization) THEN Bytes(Get(initialization)) ELSE Absent

\* line 129 returns self._setSegment, the method, which every instance has
SegmentAccessor == BoundMethod

\* property timestamp
Timestamp == IF Has(timestamp) THEN Get(timestamp) ELSE -1

\* property duration (ms; -1 when unset)
DurationAccessor == IF Has(duration) THEN Get(duration) ELSE -1

\* property sequence
Sequence == IF Has(m3u8) /\ Has(sequence) THEN Get(sequence) ELSE -1

\* property bufferList
BufferListAccessor ==
    IF Has(bufferList) /\ Len(Get(bufferList)) > 0 THEN Get(bufferList) ELSE <<>>
BufferListAbsent == ~(Has(bufferList) /\ Len(Get(bufferList)) > 0)

\* getHlsNamedSegment(name): self._hlsList[i].name on a dict raises
getHlsNamedSegment(name) ==
    IF Has(hlsList) /\ Len(Get(hlsList)) > 0 THEN Raises ELSE Absent

\* getHlsSegment(sequence): reads self._hlsBase to build '%s%d.m4s'
getHlsSegment(s) ==
    IF ~Has(Cfg.hlsBase) THEN Raises
    ELSE getHlsNamedSegment(<<Get(Cfg.hlsBase), s, ".m4s">>)

----------------------------------------------------------------------------
(* Inputs: option dicts and encoder streams *)

Options(base, hlsSize, hlsInit, bufSize) ==
    Some([hlsBase |-> base, hlsListSize |-> hlsSize,
          hlsListInit |-> hlsInit, bufferListSize |-> bufSize])

OptNone    == None
OptHlsInit == Options(Some("test"), Some(1), Some(TRUE), Some(2))
OptHlsBuf  == Options(Some("test"), Some(3), Some(FALSE), Some(2))
OptHlsOnly == Options(Some("test"), None, None, None)
OptBufOnly == Options(None, Some(2), None, Some(2))

\* moov payload carrying the avcC tag, one byte, and the profile bytes 42 C0 1E
AvcC == _AVCC \o <<1, 66, 192, 30>>

Ftyp == Box(_FTYP, <<>>)
Moov == Box(_MOOV, AvcC)
Moof(i) == Box(_MOOF, <<>>)
Mdat(i) == Box(_MDAT, <<i>>)

\* ftyp moov (moof mdat)^3
StreamThree == <<Ftyp, Moov, Moof(1), Mdat(1), Moof(2), Mdat(2), Moof(3), Mdat(3)>>
\* ftyp moov (moof mdat)^2
StreamTwo == <<Ftyp, Moov, Moof(1), Mdat(1), Moof(2), Mdat(2)>>
\* a moov without avcC
StreamNoAvcC == <<Ftyp, Box(_MOOV, <<>>), Moof(1), Mdat(1)>>
\* noise between two pairs, and the mfra end marker
StreamNoise == <<Ftyp, Moov, Moof(1), Mdat(1), <<7, 7, 7>>, Moof(2), Mdat(2), Box(_MFRA, <<>>)>>
\* a box header whose length field is zero
Box0(tag) == BE32(0) \o tag
\* zero-length ftyp, moof and mdat headers, each where that box is expected
StreamZero == <<Box0(_FTYP), Moov, Box0(_MOOF), Moof(1), Box0(_MDAT), Mdat(1)>>
\* a zero-length moov header where the moov box is expected
StreamZeroMoov == <<Ftyp, Box0(_MOOV), Moov, Moof(1), Mdat(1)>>
\* a moof box with a payload, so that a read can end inside it
StreamLongMoof == <<Ftyp, Moov, Box(_MOOF, <<5, 6>>), Mdat(1)>>

Scenarios ==
    { [opts |-> OptHlsBuf,  parts |-> StreamThree],
      [opts |-> OptHlsInit, parts |-> StreamThree],
      [opts |-> OptHlsOnly, parts |-> StreamNoise],
      [opts |-> OptBufOnly, parts |-> StreamTwo],
      [opts |-> OptNone,    parts |-> StreamTwo],
      [opts |-> OptHlsInit, parts |-> StreamNoAvcC],
      [opts |-> OptNone,    parts |-> StreamZero],
      [opts |-> OptNone,    parts |-> StreamZeroMoov],
      [opts |-> OptBufOnly, parts |-> StreamLongMoof] }

\* the bytes of the stream
Stream == Concat(parts)

\* offset in the stream at which part k starts
RECURSIVE PartStart(_, _)
PartStart(ps, k) == IF k = 1 THEN 0 ELSE PartStart(ps, k - 1) + Len(ps[k - 1])

\* Offsets at which a read may end: the end of a part, the end of a box's
\* 8-byte header, and the middle of the header (3 bytes into it).
CutPoints ==
    UNION { LET s == PartStart(parts, k)
                l == Len(parts[k])
            IN  {s + l} \cup {s + c : c \in {c \in {3, 8} : c < l}}
            : k \in DOMAIN parts }

----------------------------------------------------------------------------
(* The state machine *)

Init ==
    /\ \E sc \in Scenarios :
          /\ ~Construct(sc.opts).raised
          /\ opts = sc.opts
          /\ parts = sc.parts
    /\ pos = 0
    /\ run = TRUE
    /\ wpc = "check"
    /\ cur = <<>>
    /\ segArg = <<>>
    /\ cont = [p |-> InitParser, fwd |-> None]
    /\ parser = InitParser
    /\ initialization = None
    /\ mime = None
    /\ timestamp = None
    /\ duration = None
    /\ segment = None
    /\ sequence = IF Cfg.hasHlsList THEN Some(InitSequence) ELSE None
    /\ hlsList = IF Cfg.hasHlsList THEN Some(<<>>) ELSE None
    /\ m3u8 = None
    /\ bufferList = IF Cfg.hasBufferList THEN Some(<<>>) ELSE None
    /\ pipe = <<>>
    /\ now = 1000
    /\ handed = <<>>
    /\ pubSeqs = <<>>

\* stop(): clears _run; join() then waits for the worker
Stop ==
    /\ run = TRUE
    /\ run' = FALSE
    /\ UNCHANGED <<opts, parts, pos, wpc, cur, segArg, cont, parser,
                   initialization, mime, timestamp, duration, segment, sequence,
                   hlsList, m3u8, bufferList, pipe, now, handed, pubSeqs>>

\* a subscriber takes one message: pipe().recv_bytes()
Recv ==
    /\ pipe # <<>>
    /\ pipe' = Tail(pipe)
    /\ UNCHANGED <<opts, parts, pos, run, wpc, cur, segArg, cont, parser,
                   initialization, mime, timestamp, duration, segment, sequence,
                   hlsList, m3u8, bufferList, now, handed, pubSeqs>>

\* run(): the test of `while self._run` (after the sleep of the last round)
CheckRun ==
    /\ wpc = "check"
    /\ wpc' = IF run THEN "transform" ELSE "exited"
    /\ UNCHANGED <<opts, parts, pos, run, cur, segArg, cont, parser,
                   initialization, mime, timestamp, duration, segment, sequence,
                   hlsList, m3u8, bufferList, pipe, now, handed, pubSeqs>>

\* _transform(): self._rpipe.read() gives nothing
ReadNothing ==
    /\ wpc = "transform"
    /\ wpc' = "check"
    /\ UNCHANGED <<opts, parts, pos, run, cur, segArg, cont, parser,
                   initialization, mime, timestamp, duration, segment, sequence,
                   hlsList, m3u8, bufferList, pipe, now, handed, pubSeqs>>

\* _transform(): self._rpipe.read() gives the bytes of the stream up to a cut point
ReadChunk ==
    /\ wpc = "transform"
    /\ \E e \in {c \in CutPoints : c > pos} :
          /\ cur' = SubSeq(Stream, pos + 1, e)
          /\ pos' = e
    /\ wpc' = "parse"
    /\ UNCHANGED <<opts, parts, run, segArg, cont, parser,
                   initialization, mime, timestamp, duration, segment, sequence,
                   hlsList, m3u8, bufferList, pipe, now, handed, pubSeqs>>

\* self._parseChunk(cur), up to the handler's return or its call of _setSegment;
\* a forwarded tail is the next call
Parse ==
    /\ wpc = "parse"
    /\ LET r == _parseChunk(parser, cur) IN
       IF Has(r.seg)
       THEN /\ segArg' = Get(r.seg)
            /\ cont' = [p |-> r.p, fwd |-> r.fwd]
            /\ handed' = Append(handed, Get(r.seg))
            /\ wpc' = "setSegment"
            /\ UNCHANGED <<cur, parser, initialization, mime, timestamp, m3u8, now>>
       ELSE /\ parser' = r.p
            /\ cur' = IF Has(r.fwd) THEN Get(r.fwd) ELSE <<>>
            /\ wpc' = IF Has(r.fwd) THEN "parse" ELSE "check"
            /\ IF Has(r.init)
               THEN \E d \in Deltas :
                      LET m == _parseMoov(Get(r.init), now + d) IN
                      /\ now' = now + d
                      /\ initialization' = m.initialization
                      /\ mime' = m.mime
                      /\ timestamp' = m.timestamp
                      /\ m3u8' = m.m3u8
               ELSE UNCHANGED <<initialization, mime, timestamp, m3u8, now>>
            /\ UNCHANGED <<segArg, cont, handed>>
    /\ UNCHANGED <<opts, parts, pos, run, duration, segment, sequence,
                   hlsList, bufferList, pipe, pubSeqs>>

\* _setSegment lines 405-408; without _timestamp line 407 raises and the
\* thread ends
SetSegmentTime ==
    /\ wpc = "setSegment"
    /\ segment' = Some(segArg)
    /\ IF Has(timestamp)
       THEN \E d \in Deltas :
              /\ now' = now + d
              /\ duration' = Some(Duration(now + d, Get(timestamp)))
              /\ timestamp' = Some(now + d)
              /\ wpc' = IF Has(hlsList) THEN "sequence" ELSE "bufferList"
       ELSE /\ wpc' = "dead"
            /\ UNCHANGED <<now, duration, timestamp>>
    /\ UNCHANGED <<opts, parts, pos, run, cur, segArg, cont, parser,
                   initialization, mime, sequence,
                   hlsList, m3u8, bufferList, pipe, handed, pubSeqs>>

\* line 410
SetSegmentSequence ==
    /\ wpc = "sequence"
    /\ sequence' = Some(NextSequence(Get(sequence)))
    /\ pubSeqs' = Append(pubSeqs, NextSequence(Get(sequence)))
    /\ wpc' = "hlsList"
    /\ UNCHANGED <<opts, parts, pos, run, cur, segArg, cont, parser,
                   initialization, mime, timestamp, duration, segment,
                   hlsList, m3u8, bufferList, pipe, now, handed>>

\* lines 411-416
SetSegmentHlsList ==
    /\ wpc = "hlsList"
    /\ hlsList' = Some(Evict(Append(Get(hlsList), HlsEntry(Get(sequence), Get(duration))),
                             Cfg.hlsListSize))
    /\ wpc' = "m3u8"
    /\ UNCHANGED <<opts, parts, pos, run, cur, segArg, cont, parser,
                   initialization, mime, timestamp, duration, segment, sequence,
                   m3u8, bufferList, pipe, now, handed, pubSeqs>>

\* lines 417-426
SetSegmentM3u8 ==
    /\ wpc = "m3u8"
    /\ m3u8' = Some(LivePlaylist(Get(duration), Get(hlsList), Get(Cfg.hlsBase)))
    /\ wpc' = "bufferList"
    /\ UNCHANGED <<opts, parts, pos, run, cur, segArg, cont, parser,
                   initialization, mime, timestamp, duration, segment, sequence,
                   hlsList, bufferList, pipe, now, handed, pubSeqs>>

\* lines 427-430
SetSegmentBufferList ==
    /\ wpc = "bufferList"
    /\ bufferList' = IF Has(bufferList)
                     THEN Some(Evict(Append(Get(bufferList), Get(segment)),
                                     Cfg.bufferListSize))
                     ELSE bufferList
    /\ wpc' = "send"
    /\ UNCHANGED <<opts, parts, pos, run, cur, segArg, cont, parser,
                   initialization, mime, timestamp, duration, segment, sequence,
                   hlsList, m3u8, pipe, now, handed, pubSeqs>>

\* line 433: send_bytes waits while the pipe's buffer is full; then
\* _setSegment returns and _findMdat deletes, switches state and forwards
SetSegmentSend ==
    /\ wpc = "send"
    /\ Len(pipe) < PipeCap
    /\ pipe' = Append(pipe, Get(segment))
    /\ parser' = cont.p
    /\ cur' = IF Has(cont.fwd) THEN Get(cont.fwd) ELSE <<>>
    /\ wpc' = IF Has(cont.fwd) THEN "parse" ELSE "check"
    /\ UNCHANGED <<opts, parts, pos, run, segArg, cont,
                   initialization, mime, timestamp, duration, segment, sequence,
                   hlsList, m3u8, bufferList, now, handed, pubSeqs>>

Worker ==
    \/ CheckRun
    \/ ReadNothing
    \/ ReadChunk
    \/ Parse
    \/ SetSegmentTime
    \/ SetSegmentSequence
    \/ SetSegmentHlsList
    \/ SetSegmentM3u8
    \/ SetSegmentBufferList
    \/ SetSegmentSend

Next == Worker \/ Stop \/ Recv

Spec == Init /\ [][Next]_vars

\* the thread scheduler runs the worker whenever it can take a step; nothing
\* makes a subscriber read, nor the main thread call stop()
FairSpec == Spec /\ WF_vars(Worker)

----------------------------------------------------------------------------
(* Construction on its own: __init__ applied to every option dict of a     *)
(* bounded set, including those on which it raises                         *)

\* largest value given for hlsListSize and bufferListSize
MaxSize == 12

\* a size option: not given, or an integer
SizeChoices == {None} \cup {Some(n) : n \in 0..MaxSize}

\* the option dicts handed to __init__
CtorOptions ==
    {OptNone} \cup
    { Options(b, h, i, s) : b \in {None, Some("test")}, h \in SizeChoices,
                            i \in {None, Some(TRUE), Some(FALSE)}, s \in SizeChoices }

\* before mp4frag(pipe, options) is called
CtorInit ==
    /\ opts \in CtorOptions
    /\ parts = <<>>
    /\ pos = 0
    /\ run = FALSE
    /\ wpc = "new"
    /\ cur = <<>>
    /\ segArg = <<>>
    /\ cont = [p |-> InitParser, fwd |-> None]
    /\ parser = InitParser
    /\ initialization = None
    /\ mime = None
    /\ timestamp = None
    /\ duration = None
    /\ segment = None
    /\ sequence = None
    /\ hlsList = None
    /\ m3u8 = None
    /\ bufferList = None
    /\ pipe = <<>>
    /\ now = 1000
    /\ handed = <<>>
    /\ pubSeqs = <<>>

\* mp4frag(pipe, options): __init__ returns the object or ends in KeyError
CtorConstruct ==
    /\ wpc = "new"
    /\ IF Cfg.raised
       THEN /\ wpc' = "raised"
            /\ sequence' = IF Cfg.hasHlsList THEN Some(InitSequence) ELSE None
            /\ hlsList' = IF Cfg.hasHlsList THEN Some(<<>>) ELSE None
            /\ UNCHANGED <<run, bufferList>>
       ELSE /\ wpc' = "check"
            /\ run' = TRUE
            /\ sequence' = IF Cfg.hasHlsList THEN Some(InitSequence) ELSE None
            /\ hlsList' = IF Cfg.hasHlsList THEN Some(<<>>) ELSE None
            /\ bufferList' = IF Cfg.hasBufferList THEN Some(<<>>) ELSE None
    /\ UNCHANGED <<opts, parts, pos, cur, segArg, cont, parser,
                   initialization, mime, timestamp, duration, segment,
                   m3u8, pipe, now, handed, pubSeqs>>

CtorNext == CtorConstruct

CtorSpec == CtorInit /\ [][CtorNext]_vars

----------------------------------------------------------------------------
(* Whole-chunk processing as one function, and well-formedness of inputs *)

\* self._parseChunk(chunk) run to its return: the handlers' forwarding calls
\* followed to the end.  st.segs collects what is handed to _setSegment,
\* st.ts tells whether _timestamp exists, st.alive becomes FALSE when
\* _setSegment raises (line 407 without _timestamp).
RECURSIVE Feed(_, _, _)
Feed(p, chunk, st) ==
    LET r == _parseChunk(p, chunk) IN
    IF Has(r.seg) /\ ~st.ts
    THEN [p |-> p, segs |-> Append(st.segs, Get(r.seg)), ts |-> st.ts, alive |-> FALSE]
    ELSE LET st2 == [ segs  |-> IF Has(r.seg) THEN Append(st.segs, Get(r.seg)) ELSE st.segs,
                      ts    |-> st.ts \/ (Has(r.init) /\ Find(Get(r.init), _AVCC) # -1),
                      alive |-> TRUE ]
         IN  IF Has(r.fwd) THEN Feed(r.p, Get(r.fwd), st2)
             ELSE [p |-> r.p, segs |-> st2.segs, ts |-> st2.ts, alive |-> TRUE]

\* the segments published when the whole stream arrives as one chunk
OneChunk(bytes) == Feed(InitParser, bytes, [segs |-> <<>>, ts |-> FALSE, alive |-> TRUE]).segs

\* b is one box with the given tag: header-inclusive length and tag at offset 4
IsBox(b, tag) == Len(b) >= 8 /\ _int(Slice(b, 0, 4)) = Len(b) /\ Slice(b, 4, 8) = tag

\* the stream is ftyp moov (moof mdat)+
CompleteStream ==
    /\ Len(parts) >= 4
    /\ Len(parts) % 2 = 0
    /\ IsBox(parts[1], _FTYP)
    /\ IsBox(parts[2], _MOOV)
    /\ \A k \in 3..Len(parts) :
          IsBox(parts[k], IF k % 2 = 1 THEN _MOOF ELSE _MDAT)

\* the worker is between two chunks (or gone)
Idle == wpc \in {"check", "transform", "exited"}

\* inside _setSegment
InSetSegment == wpc \in {"setSegment", "sequence", "hlsList", "m3u8", "bufferList", "send"}

----------------------------------------------------------------------------
(* Claims *)

\* C1: for a complete stream ftyp moov (moof mdat)+, once every chunk of any
\* chunking has been processed, the segments published are those published
\* when the same stream is fed as a single chunk.
C1_ChunkingIndependent ==
    (CompleteStream /\ pos = Len(Stream) /\ Idle) => handed = OneChunk(Stream)

\* seg is a moof box followed by an mdat box and nothing else
MoofThenMdat(seg) ==
    LET moofLength == _int(Slice(seg, 0, 4))
        mdatLength == _int(Slice(seg, moofLength, moofLength + 4))
    IN  /\ Len(seg) >= 16
        /\ Slice(seg, 4, 8) = _MOOF
        /\ moofLength + 8 <= Len(seg)
        /\ Slice(seg, moofLength + 4, moofLength + 8) = _MDAT
        /\ Len(seg) = moofLength + mdatLength

\* C2: every segment _findMdat hands to the publisher is exactly the moof box
\* followed by the mdat box: its length is moof_length + mdat_length.
C2_SegmentIsMoofMdat == \A i \in DOMAIN handed : MoofThenMdat(handed[i])

\* C3: the initialization fragment is exactly the ftyp box followed by the
\* moov box, whatever else the chunk that carried the moov box held.
C3_InitIsFtypMoov ==
    Has(initialization) =>
        LET init       == Get(initialization)
            ftypLength == _int(Slice(init, 0, 4))
            moovLength == _int(Slice(init, ftypLength, ftypLength + 4))
        IN  /\ Slice(init, 4, 8) = _FTYP
            /\ Slice(init, ftypLength + 4, ftypLength + 8) = _MOOV
            /\ Len(init) = ftypLength + moovLength

\* C4: with HLS enabled the first publication gets sequence 0 and every
\* following one the next integer: the i-th sequence number assigned is i-1.
C4_SequenceConsecutive ==
    /\ \A i \in DOMAIN pubSeqs : pubSeqs[i] = i - 1
    /\ Has(sequence) => Get(sequence) = Len(pubSeqs) - 1

\* two publications on a stream whose second pair follows noise, so that the
\* second one is reached through _moofHunt
C4_Witness == Len(pubSeqs) = 2 /\ Find(Stream, <<7, 7, 7>>) # -1

\* the capacity the user configured: the option's value clamped to [2,10]
Configured(option, default) == IF Has(option) THEN Clamp(Get(option)) ELSE default

\* C5: once a publication is complete the HLS FIFO holds at most
\* clamp(hlsListSize) entries and the buffer FIFO at most
\* clamp(bufferListSize) entries.
C5_FifoBounds ==
    ~InSetSegment =>
        /\ Has(hlsList) => Len(Get(hlsList)) <= Configured(Get(opts).hlsListSize, 4)
        /\ Has(bufferList) => Len(Get(bufferList)) <= Configured(Get(opts).bufferListSize, 2)

\* the sequence numbers get_hls_segment is asked for
SeqRange == -1..3

\* an entry with sequence s is in the HLS FIFO
Resident(s) == \E i \in DOMAIN Get(hlsList) : Get(hlsList)[i].sequence = s

\* C6: on an object with HLS enabled, get_hls_segment(s) is the bytes of the
\* segment published with sequence s when an entry with sequence s is
\* resident, and absent otherwise; it never raises.
C6_GetHlsSegment ==
    (Has(hlsList) /\ ~InSetSegment) =>
        \A s \in SeqRange :
            getHlsSegment(s) = IF Resident(s) THEN Bytes(handed[s + 1]) ELSE Absent

\* C7: publishing never makes the worker wait: whenever the worker is at the
\* send of line 433, the send can complete at once.
C7_PublishNeverBlocks == wpc = "send" => ENABLED SetSegmentSend

\* C8: a reader that sees sequence() = n sees the playlist, the HLS FIFO, the
\* buffer FIFO, the latest segment, its duration and timestamp of
\* publication n.
C8_ReaderSeesPublication ==
    LET n == Sequence IN
    n >= 0 =>
        /\ Has(m3u8)
        /\ Get(m3u8).entries # <<>>
        /\ Get(m3u8).entries[Len(Get(m3u8).entries)].name = <<Get(Cfg.hlsBase), n>>
        /\ Get(hlsList) # <<>>
        /\ Get(hlsList)[Len(Get(hlsList))].sequence = n
        /\ Has(bufferList) =>
              /\ Get(bufferList) # <<>>
              /\ Get(bufferList)[Len(Get(bufferList))] = handed[n + 1]
        /\ SegmentAccessor = Bytes(handed[n + 1])
        /\ DurationAccessor >= 1000
        /\ Timestamp >= 0

\* C9: once stop() has been called the worker is never stuck: it has exited
\* (or its thread has ended) or it can take its next step without anybody
\* reading the segment channel.
C9_StopTerminates ==
    (~run /\ wpc \notin {"exited", "dead"}) => ENABLED Worker

\* C10: while no segment has been published, segment() is absent,
\* timestamp_ms() is -1, duration_s() is -1, sequence() is -1 and
\* buffer_list() is absent.
C10_SentinelsBeforeFirstSegment ==
    handed = <<>> =>
        /\ SegmentAccessor = Absent
        /\ Timestamp = -1
        /\ DurationAccessor = -1
        /\ Sequence = -1
        /\ BufferListAbsent

\* property m3u8
M3u8Accessor == IF Has(m3u8) THEN Get(m3u8) ELSE Absent

\* property mime
MimeAccessor == IF Has(mime) THEN Get(mime) ELSE Absent

\* the initialization fragment has been produced and carries the avcC tag
InitWithAvcC == Has(initialization) /\ Find(Get(initialization), _AVCC) # -1

\* C11: with HLS enabled, while no segment has been handed to the publisher:
\* when hlsListInit is not true m3u8() is absent, also after the
\* initialization fragment; when hlsListInit is true m3u8() is absent until
\* the initialization fragment and the init-mode playlist from then on
\* (stated here for initialization fragments that carry avcC).
C11_InitPlaylistOnlyOnRequest ==
    (Has(hlsList) /\ handed = <<>> /\ wpc # "new") =>
        IF Get(opts).hlsListInit = Some(TRUE)
        THEN /\ ~Has(initialization) => M3u8Accessor = Absent
             /\ InitWithAvcC => M3u8Accessor = InitPlaylist(Get(Cfg.hlsBase))
        ELSE M3u8Accessor = Absent

\* C12: construction with an integer hlsListSize (and hlsBase) gives the HLS
\* capacity clamp(hlsListSize); construction with an integer bufferListSize
\* succeeds and gives the buffer capacity clamp(bufferListSize), whatever
\* hlsListSize is and whether or not it is given.
C12_CapacitiesClamped ==
    (wpc # "new" /\ Has(opts)) =>
        /\ (Has(Get(opts).hlsBase) /\ Has(Get(opts).hlsListSize)) =>
              /\ Has(hlsList)
              /\ Cfg.hlsListSize = Clamp(Get(Get(opts).hlsListSize))
        /\ Has(Get(opts).bufferListSize) =>
              /\ wpc # "raised"
              /\ Has(bufferList)
              /\ Cfg.bufferListSize = Clamp(Get(Get(opts).bufferListSize))

\* C13: with HLS enabled and capacity c, once n >= 1 publications are complete
\* the HLS FIFO holds min(n,c) entries with the sequence numbers
\* max(0,n-c) .. n-1 in increasing order, each named hlsBase + sequence; the
\* live playlist's MEDIA-SEQUENCE is the head entry's sequence and the
\* playlist lists exactly those entries' names in that order.
C13_HlsFifoWindow ==
    (Has(hlsList) /\ ~InSetSegment /\ Len(pubSeqs) >= 1) =>
        LET n  == Len(pubSeqs)
            c  == Cfg.hlsListSize
            li == Get(hlsList)
            pl == M3u8Accessor
        IN  /\ Len(li) = Min(n, c)
            /\ \A i \in DOMAIN li :
                  /\ li[i].sequence = Max(0, n - c) + i - 1
                  /\ li[i].name = <<Get(Cfg.hlsBase), li[i].sequence>>
            /\ pl # Absent
            /\ pl.mediaSequence = li[1].sequence
            /\ [i \in DOMAIN pl.entries |-> pl.entries[i].name]
                  = [i \in DOMAIN li |-> li[i].name]

\* three publications complete with capacity 2: the oldest entry has been
\* evicted and the playlist starts at sequence 1
C13_Witness ==
    /\ Has(hlsList) /\ ~InSetSegment
    /\ Len(pubSeqs) = 3 /\ Cfg.hlsListSize = 2
    /\ Get(m3u8).mediaSequence = 1

\* the indices at which the moof tag occurs in chunk
MoofAt(chunk) == {i \in 0..(Len(chunk) - 4) : SubSeq(chunk, i + 1, i + 4) = _MOOF}

\* the worker hands cur to _moofHunt
HuntStep == wpc = "parse" /\ parser.state = "moofHunt" /\ run' = run /\ pipe' = pipe

\* C14: in MoofHunt, a chunk that is among the first 40 handed to the hunt
\* and holds the moof tag at an index i >= 4 takes the parser back to
\* FindMoof with chunk[i-4..] forwarded; once 40 attempts have failed every
\* chunk is dropped, the parser stays in MoofHunt and nothing more is handed
\* to the publisher.
C14_HuntRecoversOrGivesUp ==
    [][ HuntStep =>
          IF Get(parser.moofHunts) < 40
          THEN (\E i \in MoofAt(cur) : i >= 4) =>
                  \E i \in MoofAt(cur) :
                      /\ i >= 4
                      /\ parser'.state = "findMoof"
                      /\ ~Has(parser'.moofHunts)
                      /\ wpc' = "parse"
                      /\ cur' = SliceFrom(cur, i - 4)
          ELSE parser' = parser /\ wpc' = "check" /\ handed' = handed ]_vars

\* no accumulator and no hunt counter exists
NoAccumulator == ~Has(parser.moofBuffer) /\ ~Has(parser.mdatBuffer)
NoHunt == ~Has(parser.moofHunts) /\ ~Has(parser.moofHuntsLimit)

\* the moof+mdat pairs of the stream
Pairs ==
    { parts[k - 1] \o parts[k] :
        k \in {j \in 2..Len(parts) : IsBox(parts[j - 1], _MOOF) /\ IsBox(parts[j], _MDAT)} }

\* the last chunk read ended exactly at the end of an mdat box and completed
\* the segment of that box
SegmentEndedChunk ==
    /\ handed # <<>>
    /\ \E k \in 2..Len(parts) :
          /\ IsBox(parts[k], _MDAT)
          /\ PartStart(parts, k) + Len(parts[k]) = pos
          /\ handed[Len(handed)] = parts[k - 1] \o parts[k]

\* C15: on a complete stream, once a chunk has been fully processed: if the
\* chunk completed a segment and ended exactly at the end of the mdat box,
\* the parser is in FindMoof with no hunt counter and no accumulator; and
\* bytes that followed an mdat box in a chunk are in no segment (every
\* segment handed to the publisher is one moof+mdat pair of the stream).
C15_AfterSegment ==
    (CompleteStream /\ wpc \in {"check", "transform"}) =>
        /\ SegmentEndedChunk =>
              parser.state = "findMoof" /\ NoHunt /\ NoAccumulator
        /\ \A i \in DOMAIN handed : handed[i] \in Pairs

\* the four states that look for a box
FindStates == {"findFtyp", "findMoov", "findMoof", "findMdat"}

\* the worker hands cur to the current handler
ParseStep == wpc = "parse" /\ run' = run /\ pipe' = pipe

\* the handler is one of the four, no accumulator is active, and the chunk
\* is shorter than a box header
ShortChunk == ParseStep /\ parser.state \in FindStates /\ NoAccumulator /\ Len(cur) < 8

\* everything the accessors read, the FIFOs, and what has been published
Published ==
    <<initialization, mime, timestamp, duration, segment, sequence,
      hlsList, m3u8, bufferList, pipe, handed, pubSeqs>>

\* C16 as claimed: in each of FindFtyp, FindMoov, FindMoof and FindMdat with
\* no accumulator active a chunk shorter than 8 bytes is dropped: the parser
\* state and saved boxes, the FIFOs and every accessor value are unchanged
\* and nothing is published.
C16_ShortChunkDropped ==
    [][ ShortChunk =>
          parser' = parser /\ wpc' = "check" /\ Published' = Published ]_vars

\* C16 amended: such a chunk changes no saved box, FIFO or accessor value
\* and publishes nothing; in FindFtyp, FindMoov and FindMdat, and in FindMoof
\* when it holds the mfra tag, it is dropped with the parser unchanged; in
\* FindMoof without the mfra tag the parser enters MoofHunt (counter 0,
\* limit 40) and the chunk is handed to the hunt.
C16_ShortChunkDroppedOrHunted ==
    [][ ShortChunk =>
          /\ Published' = Published
          /\ IF parser.state = "findMoof" /\ Find(cur, _MFRA) = -1
             THEN /\ parser' = [parser EXCEPT !.state = "moofHunt",
                                              !.moofHunts = Some(0),
                                              !.moofHuntsLimit = Some(40)]
                  /\ wpc' = "parse"
                  /\ cur' = cur
             ELSE parser' = parser /\ wpc' = "check" ]_vars

\* the 3 bytes that follow ftyp and moov have just been rejected by _findMoof
\* and are on their way to _moofHunt
C16_Witness ==
    /\ wpc = "parse"
    /\ parser.state = "moofHunt"
    /\ Get(parser.moofHunts) = 0
    /\ cur # <<>> /\ Len(cur) < 8
    /\ pos = 27

\* the tag the handler of a Find state looks for
ExpectedTag(st) ==
    CASE st = "findFtyp" -> _FTYP
      [] st = "findMoov" -> _MOOV
      [] st = "findMoof" -> _MOOF
      [] st = "findMdat" -> _MDAT

\* the handler is one of the four, no accumulator is active, and the chunk
\* starts with the box the handler looks for, its length field being zero
ZeroLengthChunk ==
    /\ ParseStep /\ parser.state \in FindStates /\ NoAccumulator
    /\ Len(cur) >= 8
    /\ Slice(cur, 4, 8) = ExpectedTag(parser.state)
    /\ _int(Slice(cur, 0, 4)) = 0

\* C17: in each of FindFtyp, FindMoov, FindMoof and FindMdat a chunk that
\* starts with the expected tag and has a zero length field is dropped: the
\* parser stays in its state, no box is saved, no initialization fragment is
\* produced and nothing is handed to the publisher.
C17_ZeroLengthRejected ==
    [][ ZeroLengthChunk =>
          /\ parser'.state = parser.state
          /\ parser'.ftyp = parser.ftyp
          /\ parser'.moof = parser.moof
          /\ wpc' = "check"
          /\ initialization' = initialization
          /\ handed' = handed ]_vars

\* C18: when the initialization fragment holds no avcC tag, mime() stays
\* absent, initialization() is set, the parser has gone on to FindMoof, and
\* the worker keeps running: a moof+mdat pair handed to the publisher is
\* published with a duration of at least one second, and the thread does
\* not end.
C18_NoAvcCKeepsRunning ==
    (Has(initialization) /\ Find(Get(initialization), _AVCC) = -1) =>
        /\ MimeAccessor = Absent
        /\ Initialization # Absent
        /\ parser.state # "findMoov"
        /\ wpc # "dead"
        /\ (handed # <<>> /\ ~InSetSegment) => DurationAccessor >= 1000

\* _findMoof, with no accumulator, is handed a chunk that does not start
\* with a moof box and holds the mfra tag
MfraChunk ==
    /\ ParseStep /\ parser.state = "findMoof" /\ NoAccumulator
    /\ Len(cur) < 8 \/ Slice(cur, 4, 8) # _MOOF
    /\ Find(cur, _MFRA) # -1

\* C19: in FindMoof with no accumulator active, a chunk that does not start
\* with a moof box and holds the mfra tag is dropped: the parser stays in
\* FindMoof, no hunt counter is created, nothing is published, and the
\* sequence, both FIFOs and the playlist are unchanged.
C19_MfraEndsParsing ==
    [][ MfraChunk =>
          /\ parser' = parser
          /\ parser'.state = "findMoof" /\ ~Has(parser'.moofHunts)
          /\ wpc' = "check"
          /\ Published' = Published ]_vars

\* _findMoof is about to be handed the mfra box (or its tail) that follows
\* the last pair of the stream, two segments having been published
C19_Witness ==
    /\ wpc = "parse" /\ parser.state = "findMoof" /\ NoAccumulator /\ NoHunt
    /\ Len(cur) < 8 \/ Slice(cur, 4, 8) # _MOOF
    /\ Find(cur, _MFRA) # -1
    /\ Len(handed) = 2

\* C20: between two chunks at most one accumulator exists; the moof
\* accumulator exists only in FindMoof and the mdat accumulator only in
\* FindMdat; an accumulator's size is the number of bytes it holds, is
\* positive and stays below the box length read from the header (it is
\* cleared in the step in which the size reaches or passes that length).
C20_Accumulators ==
    Idle =>
        /\ ~(Has(parser.moofBuffer) /\ Has(parser.mdatBuffer))
        /\ Has(parser.moofBuffer) =>
              /\ parser.state = "findMoof"
              /\ Get(parser.moofBufferSize) = Len(Concat(Get(parser.moofBuffer)))
              /\ Get(parser.moofBufferSize) > 0
              /\ Get(parser.moofBufferSize) < Get(parser.moofLength)
        /\ Has(parser.mdatBuffer) =>
              /\ parser.state = "findMdat"
              /\ Get(parser.mdatBufferSize) = Len(Concat(Get(parser.mdatBuffer)))
              /\ Get(parser.mdatBufferSize) > 0
              /\ Get(parser.mdatBufferSize) < Get(parser.mdatLength)

\* between two chunks, the moof accumulator holds the first 8 of the 10
\* bytes of a moof box
C20_Witness ==
    /\ Idle
    /\ Has(parser.moofBuffer)
    /\ Get(parser.moofBufferSize) = 8 /\ Get(parser.moofLength) = 10

====
